---- MODULE Spec2Model ----
(***************************************************************************)
(* River: pipeline() of src/src/lib.ts (lines 412-440), its Result algebra *)
(* (lines 135-147) and the JavaScript promise mechanics it relies on.      *)
(*                                                                         *)
(* A pipeline is built from an array of stage functions `fns`.  Invoking   *)
(* it (optionally with a recovery function) runs an async function: it     *)
(* iterates the array, awaits every stage's Result, keeps the last Success *)
(* in `result`, and on the first Result whose isSuccess is not true        *)
(* returns recovery(res) or res.                                           *)
(***************************************************************************)
EXTENDS Integers, Sequences, FiniteSets, TLC

VARIABLES
  fns,         \* the array handed to pipeline(), which the closure refers to
  built,       \* the contents of that array when pipeline(fns) returned
  invocation,  \* the invocations of the closure
  stages,      \* pipeAsyncResult(f1, ...fns): f1 followed by fns
  run,         \* one call of pipeAsyncResult(...).run()
  alg,         \* the latest call of success(), failure() and isFailure()
  vfns,        \* pipeline(...fns) of src/unnamed/part_008: its stages
  vcall,       \* one invocation of that pipeline
  pfns,        \* pipeAsync(f1, ...fns): f1 followed by fns
  prun         \* one call of pipeAsync(...).run()

vars == <<fns, built, invocation, stages, run, alg, vfns, vcall, pfns, prun>>

(***************************************************************************)
(* Bounds of the model.                                                    *)
(***************************************************************************)
\* stage lists of every shape are enumerated up to this length
MaxStages == 3
\* all-success chains are enumerated up to this length (beyond 10 stages)
MaxChain == 11
\* invocations of the pipeline the model follows
MaxInv == 3
\* stage lists of concurrently running invocations are enumerated up to this length
MaxMultiStages == 2

Invocations == 1..MaxInv

(***************************************************************************)
(* JavaScript values that cross stage boundaries.                          *)
(***************************************************************************)
Num(n) == [t |-> "number", n |-> n]
Null == [t |-> "null", n |-> 0]
Undefined == [t |-> "undefined", n |-> 0]
NaN == [t |-> "NaN", n |-> 0]
False == [t |-> "boolean", n |-> 0]

\* x + k for a numeric literal k: null and false coerce to 0, undefined to NaN
Plus(x, k) ==
  IF x.t = "number" THEN Num(x.n + k)
  ELSE IF x.t \in {"null", "boolean"} THEN Num(x.n + k)
  ELSE NaN

\* x * k for a numeric literal k
Times(x, k) ==
  IF x.t = "number" THEN Num(x.n * k)
  ELSE IF x.t \in {"null", "boolean"} THEN Num(x.n * k)
  ELSE NaN

(***************************************************************************)
(* Result algebra of the pipeline() variant.                               *)
(***************************************************************************)
success(value) == [isSuccess |-> TRUE, value |-> value]

failure(value, error) == [isSuccess |-> FALSE, value |-> value, error |-> error]

\* the Result algebra of pipeAsyncResult (lib.ts:28-34): a Success is {value},
\* a Failure {value, errors}
arSuccess(value) == [value |-> value]

arFailure(value, errors) == [value |-> value, errors |-> errors]

\* what a call produced: a returned Result or a raised exception
NoResult == [none |-> TRUE]
Return(res) == [kind |-> "return", res |-> res, err |-> ""]
Throw(msg) == [kind |-> "throw", res |-> NoResult, err |-> msg]

(***************************************************************************)
(* Stage functions and recovery functions the callers supply (the ones of  *)
(* the tests and of the README), as functions of their input.              *)
(***************************************************************************)
SourceStages == {"source1", "sourceFail", "boom"}
TransformStages == {"addOne", "double", "fail100", "boom"}

ApplyStage(fn, input) ==
  CASE fn = "source1" -> Return(success(Num(1)))
    [] fn = "sourceFail" -> Return(failure(Num(1), "E7"))
    [] fn = "addOne" -> Return(success(Plus(input, 1)))
    [] fn = "double" -> Return(success(Times(input, 2)))
    [] fn = "fail100" -> Return(failure(Plus(input, 100), "E2"))
    [] fn = "boom" -> Throw("boom")
    [] fn = "arSource" -> Return(arSuccess(Num(1)))
    [] fn = "arStage" -> Return(arSuccess(Plus(input, 1)))

Recoveries == {"none", "recover999", "recovered", "passthrough", "recoveryBoom"}

ApplyRecovery(recovery, error) ==
  CASE recovery = "recover999" -> Return(success(Num(999)))
    [] recovery = "recovered" -> Return(failure(False, "Recovered"))
    [] recovery = "passthrough" ->
         Return(failure(error.value,
                        IF "error" \in DOMAIN error THEN error.error ELSE "undefined"))
    [] recovery = "recoveryBoom" -> Throw("recovery boom")

\* typed stage lists: a source stage followed by transform stages
RECURSIVE ListsOfLen(_)
ListsOfLen(n) ==
  IF n = 0 THEN {<<>>}
  ELSE IF n = 1 THEN {<<s>> : s \in SourceStages}
  ELSE {Append(l, t) : l \in ListsOfLen(n - 1), t \in TransformStages}

\* source1, addOne, double, addOne, ... : every stage succeeds
LongChain(n) ==
  [i \in 1..n |-> IF i = 1 THEN "source1"
                  ELSE IF i % 2 = 0 THEN "addOne" ELSE "double"]

StageLists ==
  UNION {ListsOfLen(n) : n \in 0..MaxStages}
    \cup {LongChain(n) : n \in (MaxStages + 1)..MaxChain}

(***************************************************************************)
(* One invocation of the async function pipeline() returns.                *)
(***************************************************************************)
NoPromise == [settled |-> TRUE, async |-> FALSE, out |-> Throw("")]
Pending == [state |-> "pending", res |-> NoResult, err |-> ""]
Fulfilled(res) == [state |-> "fulfilled", res |-> res, err |-> ""]
Rejected(err) == [state |-> "rejected", res |-> NoResult, err |-> err]

Idle ==
  [pc |-> "idle", recovery |-> "none", result |-> NoResult, idx |-> 0,
   awaiting |-> NoPromise, settlement |-> Pending, log |-> <<>>]

\* events of the history an invocation leaves behind
CallEv(i, input, a) ==
  [ev |-> "call", stage |-> i, fn |-> fns[i], arg |-> input, async |-> a,
   out |-> Throw("")]
SettleEv(i, out) ==
  [ev |-> "settle", stage |-> i, fn |-> "", arg |-> Undefined, async |-> FALSE, out |-> out]
RCallEv(res, a) ==
  [ev |-> "rcall", stage |-> 0, fn |-> "", arg |-> res, async |-> a, out |-> Throw("")]
RSettleEv(out) ==
  [ev |-> "rsettle", stage |-> 0, fn |-> "", arg |-> Undefined, async |-> FALSE, out |-> out]

\* the async function returns: its promise is fulfilled with res
Fulfil(s, res) ==
  [s EXCEPT !.pc = "done", !.awaiting = NoPromise, !.settlement = Fulfilled(res)]

\* an exception leaves the async function: its promise is rejected
Reject(s, err) ==
  [s EXCEPT !.pc = "done", !.awaiting = NoPromise, !.settlement = Rejected(err)]

\* lib.ts:423
EmptyPipelineResultUndefined == success(Undefined)
EmptyPipelineResult == success(Null)

\* lib.ts:420, 427: result?.value, result being a local of the invocation
NextInputShared(result) ==
  IF invocation[2].result = NoResult THEN Undefined ELSE invocation[2].result.value
NextInput(result) ==
  IF result = NoResult THEN Undefined ELSE result.value

\* lib.ts:428, res.isSuccess
IsSuccessUnlessFalse(res) == ~("isSuccess" \in DOMAIN res /\ res.isSuccess = FALSE)
IsSuccessAlways(res) == TRUE
IsSuccessField(res) ==
  "isSuccess" \in DOMAIN res /\ res.isSuccess = TRUE

\* lib.ts:431, if (recovery)
HasRecovery(recovery) == recovery # "none"

\* lib.ts:426, the array iterator of for..of: is there an element after the i-th
HasNextUpTo10(i) == i < Len(fns) /\ i < 10
HasNext(i) == i < Len(fns)

\* lib.ts:426, the array iterator of for..of advances by one element
NextIndexSkipping(i) == IF i + 2 <= Len(fns) THEN i + 2 ELSE i + 1
NextIndex(i) == i + 1

\* lib.ts:427, await: the continuation runs once the awaited value is settled
CanResumeNever(p) == FALSE
CanResumeUnsettled(p) == TRUE
CanResume(p) == p.settled

\* lib.ts:427, await: the awaited promise is unwrapped to what it settled with
\* a promise read as if it were a Result: it has no isSuccess, value or error
PromiseObject == [promise |-> TRUE, value |-> Undefined, error |-> "undefined"]
AwaitNoUnwrap(p) == IF p.async THEN Return(PromiseObject) ELSE p.out
Await(p) == p.out

\* the argument of the latest call of the recovery function
LastRecoveryArg(log) ==
  LET calls == SelectSeq(log, LAMBDA e : e.ev = "rcall")
  IN calls[Len(calls)].arg

\* lib.ts:432, return recovery(res): what recovery produced ends the invocation
OnRecoveredResume(s, out) ==
  LET t == [s EXCEPT !.log = Append(@, RSettleEv(out))]
  IN IF out.kind = "throw" THEN Reject(t, out.err)
     ELSE IF IsSuccessField(out.res)
       THEN [t EXCEPT !.pc = "awaitStage",
                      !.awaiting = [settled |-> TRUE, async |-> FALSE, out |-> out]]
       ELSE Fulfil(t, out.res)
OnRecoveredReturnRes(s, out) ==
  LET t == [s EXCEPT !.log = Append(@, RSettleEv(out))]
  IN IF out.kind = "throw" THEN Reject(t, out.err)
     ELSE Fulfil(t, LastRecoveryArg(s.log))
OnRecovered(s, out) ==
  LET t == [s EXCEPT !.log = Append(@, RSettleEv(out))]
  IN IF out.kind = "throw" THEN Reject(t, out.err) ELSE Fulfil(t, out.res)

\* lib.ts:432, return of a promise from the async function: the invocation's
\* promise follows it and settles when it settles
AdoptNothing(s, out) == Fulfil(s, PromiseObject)
Adopt(s, out) ==
  [s EXCEPT !.pc = "awaitRecovery",
            !.awaiting = [settled |-> FALSE, async |-> TRUE, out |-> out]]

\* lib.ts:432, recovery(res) is called; a promise it returns is adopted
CallRecoveryWithInput(s, res, a) ==
  LET errorWithInput == [res EXCEPT !.value = NextInput(s.result)]
      out == ApplyRecovery(s.recovery, errorWithInput)
      called == [s EXCEPT !.log = Append(@, RCallEv(errorWithInput, a))]
  IN IF a
       THEN [called EXCEPT !.pc = "awaitRecovery",
                           !.awaiting = [settled |-> FALSE, async |-> TRUE, out |-> out]]
       ELSE OnRecovered(called, out)
CallRecovery(s, res, a) ==
  LET out == ApplyRecovery(s.recovery, res)
      called == [s EXCEPT !.log = Append(@, RCallEv(res, a))]
  IN IF a THEN Adopt(called, out) ELSE OnRecovered(called, out)

\* lib.ts:427, fn(result?.value) is called and its value awaited; a stage
\* that returns a promise (a) is in progress until the promise settles
CallStage(s, i, a) ==
  LET input == NextInput(s.result)
      out == ApplyStage(fns[i], input)
      called == [s EXCEPT !.idx = i, !.log = Append(@, CallEv(i, input, a))]
      returned == [called EXCEPT !.log = Append(@, SettleEv(i, out))]
  IN IF a
       THEN [called EXCEPT !.pc = "awaitStage",
                           !.awaiting = [settled |-> FALSE, async |-> TRUE, out |-> out]]
       ELSE IF out.kind = "throw" THEN Reject(returned, out.err)
       ELSE [returned EXCEPT !.pc = "awaitStage",
                             !.awaiting = [settled |-> TRUE, async |-> FALSE, out |-> out]]

\* lib.ts:420-427, the body up to the first await
Start(s, a) ==
  IF Len(fns) = 0 THEN Fulfil(s, EmptyPipelineResult) ELSE CallStage(s, 1, a)

\* lib.ts:427-438, the continuation after an await, up to the next await
Resume(s, a) ==
  LET out == Await(s.awaiting)
  IN IF out.kind = "throw" THEN Reject(s, out.err)
     ELSE LET res == out.res
          IN IF IsSuccessField(res)
               THEN LET t == [s EXCEPT !.result = res]
                    IN IF HasNext(t.idx) THEN CallStage(t, NextIndex(t.idx), a)
                       ELSE Fulfil(t, t.result)
               ELSE IF HasRecovery(s.recovery) THEN CallRecovery(s, res, a)
               ELSE Fulfil(s, res)

(***************************************************************************)
(* pipeAsyncResult() of src/src/lib.ts (lines 51-117) and its Result       *)
(* algebra (lines 28-43): a Success is {value}, a Failure {value, errors}. *)
(***************************************************************************)
\* lib.ts:37-39
arIsSuccessByValue(result) == "value" \in DOMAIN result
arIsSuccess(result) == "value" \in DOMAIN result /\ ~("errors" \in DOMAIN result)

\* lib.ts:41-43
arIsFailureByValue(result) == ~("value" \in DOMAIN result)
arIsFailureAlways(result) == TRUE
arIsFailure(result) == "errors" \in DOMAIN result

\* what a stage may throw: an Error, a string, a number
ErrorObject(message) == [t |-> "Error", message |-> message, n |-> 0]
ThrownString(str) == [t |-> "string", message |-> str, n |-> 0]
ThrownNumber(n) == [t |-> "number", message |-> "", n |-> n]

\* String(error) of a thrown non-Error
String(error) == IF error.t = "string" THEN error.message ELSE ToString(error.n)

\* lib.ts:65 and 91, error instanceof Error ? error.message : String(error)
ErrorMessageFixed(error) == "SYSTEM_ERROR"
ErrorMessage(error) == IF error.t = "Error" THEN error.message ELSE String(error)

\* lib.ts:63-66 and 89-92
ThrownError(currentValue, error) == arFailure(currentValue, <<ErrorMessage(error)>>)

\* lib.ts:102-105
ErrorWithOwnValue(currentValue, result) == arFailure(result.value, result.errors)
ErrorWithInput(currentValue, result) == arFailure(currentValue, result.errors)

\* the stage and recovery functions of src/src/lib_test.ts
ARSourceStages == {"f1ok", "f1fail", "f1throw"}
ARTransformStages == {"times2", "failZero", "throwError", "throwString", "throwNumber"}

ARApplyStage(fn, input) ==
  CASE fn = "f1ok" -> Return(arSuccess(Num(1)))
    [] fn = "f1fail" -> Return(arFailure(Num(7), <<"initial error">>))
    [] fn = "f1throw" -> Throw(ErrorObject("f1 error"))
    [] fn = "times2" -> Return(arSuccess(Times(input, 2)))
    [] fn = "failZero" -> Return(arFailure(Num(0), <<"mid error", "second error">>))
    [] fn = "throwError" -> Throw(ErrorObject("Test error"))
    [] fn = "throwString" -> Throw(ThrownString("ERROR 1"))
    [] fn = "throwNumber" -> Throw(ThrownNumber(42))

ARRecoveries == {"none", "recover999", "recoverFail", "recoveryBoom"}

ARApplyRecovery(recoveryFunc, error) ==
  CASE recoveryFunc = "recover999" -> Return(arSuccess(Num(999)))
    [] recoveryFunc = "recoverFail" -> Return(arFailure(error.value, <<"recovery failed">>))
    [] recoveryFunc = "recoveryBoom" -> Throw(ErrorObject("recovery boom"))

RECURSIVE ARListsOfLen(_)
ARListsOfLen(n) ==
  IF n = 1 THEN {<<s>> : s \in ARSourceStages}
  ELSE {Append(l, t) : l \in ARListsOfLen(n - 1), t \in ARTransformStages}

ARStageLists == UNION {ARListsOfLen(n) : n \in 1..MaxStages}

ARIdle ==
  [pc |-> "idle", recoveryFunc |-> "none", result |-> NoResult, idx |-> 0,
   awaiting |-> NoPromise, settlement |-> Pending, log |-> <<>>]

ARCallEv(i, input, a) ==
  [ev |-> "call", stage |-> i, fn |-> stages[i], arg |-> input, async |-> a,
   out |-> Throw("")]

\* lib.ts:67-71, 75-79, 93-97, 106-110: return recoveryFunc(error) or error
ARFail(s, error) ==
  IF s.recoveryFunc # "none"
    THEN LET out == ARApplyRecovery(s.recoveryFunc, error)
             t == [s EXCEPT !.log = Append(Append(@, RCallEv(error, FALSE)),
                                           RSettleEv(out))]
         IN IF out.kind = "throw" THEN Reject(t, ErrorMessage(out.err))
            ELSE Fulfil(t, out.res)
    ELSE Fulfil(s, error)

\* lib.ts:61 / 83, the input of stage i: none for f1, result.value for the others
ARInput(s, i) == IF i = 1 THEN Undefined ELSE s.result.value

\* lib.ts:64 / 90, the value of thrownError: null for f1, currentValue otherwise
ARValueAtThrow(s, i) == IF i = 1 THEN Null ELSE s.result.value

\* lib.ts:60-72 and 86-98, the stage's value is awaited inside try/catch
ARCallStage(s, i, a) ==
  LET input == ARInput(s, i)
      out == ARApplyStage(stages[i], input)
      called == [s EXCEPT !.idx = i, !.log = Append(@, ARCallEv(i, input, a))]
      returned == [called EXCEPT !.log = Append(@, SettleEv(i, out))]
  IN IF a
       THEN [called EXCEPT !.pc = "awaitStage",
                           !.awaiting = [settled |-> FALSE, async |-> TRUE, out |-> out]]
       ELSE IF out.kind = "throw"
         THEN ARFail(returned, ThrownError(ARValueAtThrow(s, i), out.err))
       ELSE [returned EXCEPT !.pc = "awaitStage",
                             !.awaiting = [settled |-> TRUE, async |-> FALSE, out |-> out]]

\* lib.ts:82, for (const fn of fns): is there a stage after the i-th
ARHasNext(i) == i < Len(stages)

\* lib.ts:61-114, the continuation after an await, up to the next await
ARResume(s, a) ==
  LET out == s.awaiting.out
      i == s.idx
  IN IF out.kind = "throw"
       THEN ARFail(s, ThrownError(ARValueAtThrow(s, i), out.err))
     ELSE IF arIsFailure(out.res)
       THEN ARFail(s, IF i = 1 THEN out.res
                      ELSE ErrorWithInput(s.result.value, out.res))
     ELSE LET t == [s EXCEPT !.result = out.res]
          IN IF ARHasNext(i) THEN ARCallStage(t, i + 1, a)
             ELSE Fulfil(t, t.result)

\* no pipeAsyncResult pipeline is in use
NoRun == stages = <<>> /\ run = ARIdle

\* run(recoveryFunc) is called
Run(r, a) ==
  /\ stages # <<>>
  /\ run.pc = "idle"
  /\ run' = ARCallStage([run EXCEPT !.recoveryFunc = r], 1, a)
  /\ UNCHANGED <<fns, built, invocation, stages, alg, vfns, vcall, pfns, prun>>

\* the promise an asynchronous stage returned settles
RunStageSettles ==
  /\ run.pc = "awaitStage"
  /\ ~run.awaiting.settled
  /\ run' = [run EXCEPT !.awaiting.settled = TRUE,
                        !.log = Append(@, SettleEv(run.idx, run.awaiting.out))]
  /\ UNCHANGED <<fns, built, invocation, stages, alg, vfns, vcall, pfns, prun>>

\* run() resumes after its await
RunContinue(a) ==
  /\ run.pc = "awaitStage"
  /\ run.awaiting.settled
  /\ run' = ARResume(run, a)
  /\ UNCHANGED <<fns, built, invocation, stages, alg, vfns, vcall, pfns, prun>>

(***************************************************************************)
(* Calls of the Result algebra of the pipeline() variant.                  *)
(***************************************************************************)
\* lib.ts:143-147
isFailureNotNegated(result) == result.isSuccess
isFailure(result) == ~result.isSuccess

\* numbers handed to success() and failure() are enumerated up to this one
MaxNum == 9

Values == {Num(n) : n \in 0..MaxNum} \cup {Null, Undefined, NaN, False}
Tags == {"E1", "E2", "SYSTEM_ERROR"}

AlgIdle ==
  [op |-> "none", value |-> Undefined, error |-> "", result |-> NoResult,
   asked |-> FALSE, isFailure |-> FALSE]

NoAlgebraCall == alg = AlgIdle

CallSuccess(v) ==
  /\ alg' = [op |-> "success", value |-> v, error |-> "", result |-> success(v),
             asked |-> FALSE, isFailure |-> FALSE]
  /\ UNCHANGED <<fns, built, invocation, stages, run, vfns, vcall, pfns, prun>>

CallFailure(v, e) ==
  /\ alg' = [op |-> "failure", value |-> v, error |-> e, result |-> failure(v, e),
             asked |-> FALSE, isFailure |-> FALSE]
  /\ UNCHANGED <<fns, built, invocation, stages, run, vfns, vcall, pfns, prun>>

CallIsFailure ==
  /\ alg.op # "none"
  /\ alg' = [alg EXCEPT !.asked = TRUE, !.isFailure = isFailure(alg.result)]
  /\ UNCHANGED <<fns, built, invocation, stages, run, vfns, vcall, pfns, prun>>

\* calls of success(), failure(), isSuccess() and isFailure() of the
\* pipeAsyncResult algebra (lib.ts:28-43)
ErrorLists == {<<>>, <<"E1">>, <<"E1", "E2">>}

CallArSuccess(v) ==
  /\ alg' = [op |-> "arSuccess", value |-> v, errors |-> <<>>, result |-> arSuccess(v),
             asked |-> FALSE, isSuccess |-> FALSE, isFailure |-> FALSE]
  /\ UNCHANGED <<fns, built, invocation, stages, run, vfns, vcall, pfns, prun>>

CallArFailure(v, errors) ==
  /\ alg' = [op |-> "arFailure", value |-> v, errors |-> errors,
             result |-> arFailure(v, errors),
             asked |-> FALSE, isSuccess |-> FALSE, isFailure |-> FALSE]
  /\ UNCHANGED <<fns, built, invocation, stages, run, vfns, vcall, pfns, prun>>

CallArChecks ==
  /\ alg.op \in {"arSuccess", "arFailure"}
  /\ alg' = [alg EXCEPT !.asked = TRUE,
                        !.isSuccess = arIsSuccess(alg.result),
                        !.isFailure = arIsFailure(alg.result)]
  /\ UNCHANGED <<fns, built, invocation, stages, run, vfns, vcall, pfns, prun>>

(***************************************************************************)
(* The variadic pipeline(...fns) of src/unnamed/part_008 (lines 64-151):   *)
(* a synchronous closure that hands over to handleAsyncPipeline when the   *)
(* source stage returns a promise.                                         *)
(***************************************************************************)
VIdle ==
  [pc |-> "idle", mode |-> "none", errorHandler |-> "none", async |-> {},
   handlerAsync |-> FALSE, value |-> Undefined, idx |-> 0,
   awaiting |-> NoPromise, settlement |-> Pending, log |-> <<>>]

NoVariadic == vfns = <<>> /\ vcall = VIdle

VCallEv(i, input, a) ==
  [ev |-> "call", stage |-> i, fn |-> vfns[i], arg |-> input, async |-> a,
   out |-> Throw("")]

\* part_008:81, 92, 124, 137, !result.isSuccess
NotSuccess(result) == ~("isSuccess" \in DOMAIN result /\ result.isSuccess = TRUE)

\* part_008:104-112
handleError(s, result) ==
  IF s.errorHandler # "none"
    THEN LET out == ApplyRecovery(s.errorHandler, result)
             t == [s EXCEPT !.log = Append(Append(@, RCallEv(result, FALSE)),
                                           RSettleEv(out))]
         IN IF out.kind = "throw" THEN Reject(t, out.err) ELSE Fulfil(t, out.res)
    ELSE Fulfil(s, failure(result.value, result.error))

\* part_008:73-99, the synchronous path from stage i on: what a stage returns
\* is read as a Result at once, a promise included
RECURSIVE SyncPath(_, _)
SyncPath(s, i) ==
  IF i > Len(vfns) THEN Fulfil(s, success(s.value))
  ELSE LET a == i \in s.async
           out == ApplyStage(vfns[i], s.value)
           called == [s EXCEPT !.idx = i, !.log = Append(@, VCallEv(i, s.value, a))]
           returned == [called EXCEPT !.log = Append(@, SettleEv(i, out))]
       IN IF a THEN handleError(called, PromiseObject)
          ELSE IF out.kind = "throw" THEN Reject(returned, out.err)
          ELSE IF NotSuccess(out.res) THEN handleError(returned, out.res)
          ELSE SyncPath([returned EXCEPT !.value = out.res.value], i + 1)

\* part_008:147-150
CaughtFailureUndefined(error) == failure(Undefined, error)
CaughtFailure(error) == failure(Null, error)

\* part_008:122, 135, await fn(currentValue) inside try
AsyncCall(s, i) ==
  LET a == i \in s.async
      out == ApplyStage(vfns[i], s.value)
      called == [s EXCEPT !.idx = i, !.log = Append(@, VCallEv(i, s.value, a))]
      returned == [called EXCEPT !.log = Append(@, SettleEv(i, out))]
  IN IF a
       THEN [called EXCEPT !.pc = "awaitStage",
                           !.awaiting = [settled |-> FALSE, async |-> TRUE, out |-> out]]
       ELSE IF out.kind = "throw" THEN Fulfil(returned, CaughtFailure(out.err))
       ELSE [returned EXCEPT !.pc = "awaitStage",
                             !.awaiting = [settled |-> TRUE, async |-> FALSE, out |-> out]]

\* part_008:125-127, 138-140, await Promise.resolve(errorHandler(result))
CallHandler(s, result) ==
  LET out == ApplyRecovery(s.errorHandler, result)
      called == [s EXCEPT !.log = Append(@, RCallEv(result, s.handlerAsync))]
      returned == [called EXCEPT !.log = Append(@, RSettleEv(out))]
  IN IF s.handlerAsync
       THEN [called EXCEPT !.pc = "awaitHandler",
                           !.awaiting = [settled |-> FALSE, async |-> TRUE, out |-> out]]
       ELSE IF out.kind = "throw" THEN Fulfil(returned, CaughtFailure(out.err))
       ELSE Fulfil(returned, out.res)

\* part_008:122-146, the continuation after an await, up to the next await
AsyncResume(s) ==
  LET out == s.awaiting.out
  IN IF out.kind = "throw" THEN Fulfil(s, CaughtFailure(out.err))
     ELSE IF NotSuccess(out.res)
       THEN IF s.errorHandler # "none" THEN CallHandler(s, out.res)
            ELSE Fulfil(s, failure(out.res.value, out.res.error))
     ELSE LET t == [s EXCEPT !.value = out.res.value]
          IN IF s.idx < Len(vfns) THEN AsyncCall(t, s.idx + 1)
             ELSE Fulfil(t, success(t.value))

\* part_008:115-122, handleAsyncPipeline calls the source stage
handleAsyncPipeline(s) == AsyncCall(s, 1)

\* part_008:66-100, the closure
VStart(s) ==
  IF Len(vfns) = 0 THEN Fulfil([s EXCEPT !.mode = "sync"], success(Undefined))
  ELSE IF 1 \in s.async
    THEN handleAsyncPipeline(
           [s EXCEPT !.mode = "async",
                     !.log = Append(@, VCallEv(1, Undefined, TRUE))])
    ELSE SyncPath([s EXCEPT !.mode = "sync"], 1)

\* the closure is called with error handler h; the stages in A are the ones
\* that return promises, ha tells whether the handler returns one
VInvoke(A, h, ha) ==
  /\ vcall.pc = "idle"
  /\ h = "none" => ~ha
  /\ vcall' = VStart([vcall EXCEPT !.errorHandler = h, !.async = A, !.handlerAsync = ha])
  /\ UNCHANGED <<fns, built, invocation, stages, run, alg, vfns, pfns, prun>>

\* the promise an asynchronous stage returned settles
VStageSettles ==
  /\ vcall.pc = "awaitStage"
  /\ ~vcall.awaiting.settled
  /\ vcall' = [vcall EXCEPT !.awaiting.settled = TRUE,
                            !.log = Append(@, SettleEv(vcall.idx, vcall.awaiting.out))]
  /\ UNCHANGED <<fns, built, invocation, stages, run, alg, vfns, pfns, prun>>

\* handleAsyncPipeline resumes after its await
VContinue ==
  /\ vcall.pc = "awaitStage"
  /\ vcall.awaiting.settled
  /\ vcall' = AsyncResume(vcall)
  /\ UNCHANGED <<fns, built, invocation, stages, run, alg, vfns, pfns, prun>>

\* the promise an asynchronous error handler returned settles
VHandlerSettles ==
  /\ vcall.pc = "awaitHandler"
  /\ LET out == vcall.awaiting.out
         t == [vcall EXCEPT !.log = Append(@, RSettleEv(out))]
     IN vcall' = IF out.kind = "throw" THEN Fulfil(t, CaughtFailure(out.err))
                 ELSE Fulfil(t, out.res)
  /\ UNCHANGED <<fns, built, invocation, stages, run, alg, vfns, pfns, prun>>

(***************************************************************************)
(* pipeAsync(f1, ...fns).run() of src/unnamed/part_007 (lines 436-451),    *)
(* with the functions of the tests of src/unnamed/part_006.                *)
(***************************************************************************)
Str(s) == [t |-> "string", n |-> 0, s |-> s]

\* f1 is called without an argument
NoArgument == [t |-> "none", n |-> 0]

\* the string a value turns into inside a template literal
JSToString(x) ==
  CASE x.t = "number" -> ToString(x.n)
    [] x.t = "string" -> x.s
    [] x.t = "null" -> "null"
    [] x.t = "NaN" -> "NaN"
    [] x.t = "boolean" -> "false"
    [] OTHER -> "undefined"

\* x + k for a numeric literal k: a string is concatenated
PPlus(x, k) == IF x.t = "string" THEN Str(x.s \o ToString(k)) ELSE Plus(x, k)

\* x.length
Length(x) == IF x.t = "string" THEN Num(Len(x.s)) ELSE Undefined

FirstFuncs == {"one", "ten"}
LaterElements == {"valueOf", "length", "times3", "plus100", "throws", "notAFunction"}

ApplyFunc(fn, input) ==
  CASE fn = "one" -> Return(Num(1))
    [] fn = "ten" -> Return(Num(10))
    [] fn = "valueOf" -> Return(Str("value " \o JSToString(input)))
    [] fn = "length" -> Return(Length(input))
    [] fn = "times3" -> Return(Times(input, 3))
    [] fn = "plus100" -> Return(PPlus(input, 100))
    [] fn = "throws" -> Throw("thrown")

RECURSIVE PListsOfLen(_)
PListsOfLen(n) ==
  IF n = 1 THEN {<<f>> : f \in FirstFuncs}
  ELSE {Append(l, e) : l \in PListsOfLen(n - 1), e \in LaterElements}

PLists == UNION {PListsOfLen(n) : n \in 1..MaxStages}

PIdle ==
  [pc |-> "idle", result |-> Undefined, idx |-> 0, awaiting |-> NoPromise,
   settlement |-> Pending, log |-> <<>>]

NoPipeAsync == pfns = <<>> /\ prun = PIdle

PCallEv(i, input, a) ==
  [ev |-> "call", stage |-> i, fn |-> pfns[i], arg |-> input, async |-> a,
   out |-> Throw("")]

\* part_007:444, typeof fn === 'function'
IsFunction(fn) == fn # "notAFunction"

\* part_007:442, 445: f1() and fn(result)
PInputNone(s, i) == NoArgument
PInput(s, i) == IF i = 1 THEN NoArgument ELSE s.result

\* part_007:442, 445: the function is called and its value awaited
PCall(s, i, a) ==
  LET input == PInput(s, i)
      out == ApplyFunc(pfns[i], input)
      called == [s EXCEPT !.idx = i, !.log = Append(@, PCallEv(i, input, a))]
      returned == [called EXCEPT !.log = Append(@, SettleEv(i, out))]
  IN IF a
       THEN [called EXCEPT !.pc = "awaitStage",
                           !.awaiting = [settled |-> FALSE, async |-> TRUE, out |-> out]]
       ELSE IF out.kind = "throw" THEN Reject(returned, out.err)
       ELSE [returned EXCEPT !.pc = "awaitStage",
                             !.awaiting = [settled |-> TRUE, async |-> FALSE, out |-> out]]

\* part_007:443-448, the loop from element i on: elements that are not
\* functions are passed over
RECURSIVE PFrom(_, _, _)
PFrom(s, i, a) ==
  IF i > Len(pfns) THEN Fulfil(s, s.result)
  ELSE IF IsFunction(pfns[i]) THEN PCall(s, i, a)
  ELSE PFrom(s, i + 1, a)

\* part_007:442-448, the continuation after an await, up to the next await
PResume(s, a) ==
  LET out == s.awaiting.out
  IN IF out.kind = "throw" THEN Reject(s, out.err)
     ELSE PFrom([s EXCEPT !.result = out.res], s.idx + 1, a)

\* run() is called
PRun(a) ==
  /\ pfns # <<>>
  /\ prun.pc = "idle"
  /\ prun' = PCall(prun, 1, a)
  /\ UNCHANGED <<fns, built, invocation, stages, run, alg, vfns, vcall, pfns>>

\* the promise a function returned settles
PSettles ==
  /\ prun.pc = "awaitStage"
  /\ ~prun.awaiting.settled
  /\ prun' = [prun EXCEPT !.awaiting.settled = TRUE,
                          !.log = Append(@, SettleEv(prun.idx, prun.awaiting.out))]
  /\ UNCHANGED <<fns, built, invocation, stages, run, alg, vfns, vcall, pfns>>

\* run() resumes after its await
PContinue(a) ==
  /\ prun.pc = "awaitStage"
  /\ prun.awaiting.settled
  /\ prun' = PResume(prun, a)
  /\ UNCHANGED <<fns, built, invocation, stages, run, alg, vfns, vcall, pfns>>

(***************************************************************************)
(* Actions.                                                                *)
(***************************************************************************)
Init ==
  /\ fns \in StageLists
  /\ built = fns
  /\ invocation = [k \in Invocations |-> Idle]
  /\ NoRun
  /\ NoAlgebraCall
  /\ NoVariadic
  /\ NoPipeAsync

\* the caller invokes the pipeline with recovery function r
Invoke(k, r, a) ==
  /\ invocation[k].pc = "idle"
  /\ invocation' = [invocation EXCEPT ![k] = Start([@ EXCEPT !.recovery = r], a)]
  /\ UNCHANGED <<fns, built, stages, run, alg, vfns, vcall, pfns, prun>>

\* the promise an asynchronous stage returned settles
StageSettles(k) ==
  /\ invocation[k].pc = "awaitStage"
  /\ ~invocation[k].awaiting.settled
  /\ invocation' = [invocation EXCEPT
       ![k].awaiting.settled = TRUE,
       ![k].log = Append(@, SettleEv(invocation[k].idx, invocation[k].awaiting.out))]
  /\ UNCHANGED <<fns, built, stages, run, alg, vfns, vcall, pfns, prun>>

\* the invocation resumes after its await
Continue(k, a) ==
  /\ invocation[k].pc = "awaitStage"
  /\ CanResume(invocation[k].awaiting)
  /\ invocation' = [invocation EXCEPT ![k] = Resume(@, a)]
  /\ UNCHANGED <<fns, built, stages, run, alg, vfns, vcall, pfns, prun>>

\* the promise an asynchronous recovery function returned settles
RecoverySettles(k) ==
  /\ invocation[k].pc = "awaitRecovery"
  /\ invocation' = [invocation EXCEPT ![k] = OnRecovered(@, @.awaiting.out)]
  /\ UNCHANGED <<fns, built, stages, run, alg, vfns, vcall, pfns, prun>>

\* one invocation of the pipeline
Next ==
  \/ \E r \in Recoveries, a \in BOOLEAN : Invoke(1, r, a)
  \/ StageSettles(1)
  \/ \E a \in BOOLEAN : Continue(1, a)
  \/ RecoverySettles(1)

Spec == Init /\ [][Next]_vars

\* one invocation of a pipeline some of whose stages return Results of the
\* pipeAsyncResult algebra
RECURSIVE ForeignListsOfLen(_)
ForeignListsOfLen(n) ==
  IF n = 1 THEN {<<s>> : s \in SourceStages \cup {"arSource"}}
  ELSE {Append(l, t) : l \in ForeignListsOfLen(n - 1),
                       t \in TransformStages \cup {"arStage"}}

ForeignLists ==
  {l \in UNION {ForeignListsOfLen(n) : n \in 1..MaxStages} :
     \E i \in DOMAIN l : l[i] \in {"arSource", "arStage"}}

InitForeign ==
  /\ fns \in ForeignLists
  /\ built = fns
  /\ invocation = [k \in Invocations |-> Idle]
  /\ NoRun
  /\ NoAlgebraCall
  /\ NoVariadic
  /\ NoPipeAsync

SpecForeign == InitForeign /\ [][Next]_vars

\* one invocation whose stages and recovery function eventually return: a
\* promise that is pending eventually settles, and the event loop eventually
\* runs a continuation that is ready
Fairness ==
  /\ WF_vars(StageSettles(1))
  /\ WF_vars(\E a \in BOOLEAN : Continue(1, a))
  /\ WF_vars(RecoverySettles(1))

SpecLive == Init /\ [][Next]_vars /\ Fairness

\* the pipeline with every stage (and the recovery function) synchronous is
\* invoked first (invocation 1); then the pipeline with the same stage logic
\* and the same recovery, any subset of them asynchronous (invocation 2)
NextUniform ==
  \/ \E r \in Recoveries : Invoke(1, r, FALSE)
  \/ Continue(1, FALSE)
  \/ \E a \in BOOLEAN :
       invocation[1].pc = "done" /\ Invoke(2, invocation[1].recovery, a)
  \/ StageSettles(2)
  \/ \E a \in BOOLEAN : Continue(2, a)
  \/ RecoverySettles(2)

SpecUniform == Init /\ [][NextUniform]_vars

\* the pipeline is invoked alone (invocation 1, run to its end), then twice
\* more with the same recovery function, the third invocation starting while
\* the second is suspended, the two interleaving at their awaits
InitMulti ==
  /\ fns \in UNION {ListsOfLen(n) : n \in 0..MaxMultiStages}
  /\ built = fns
  /\ invocation = [k \in Invocations |-> Idle]
  /\ NoRun
  /\ NoAlgebraCall
  /\ NoVariadic
  /\ NoPipeAsync

NextMulti ==
  \/ \E r \in Recoveries : Invoke(1, r, FALSE)
  \/ Continue(1, FALSE)
  \/ \E a \in BOOLEAN :
       invocation[1].pc = "done" /\ Invoke(2, invocation[1].recovery, a)
  \/ \E a \in BOOLEAN :
       /\ invocation[2].pc \in {"awaitStage", "awaitRecovery"}
       /\ Invoke(3, invocation[1].recovery, a)
  \/ \E k \in {2, 3} : StageSettles(k)
  \/ \E k \in {2, 3}, a \in BOOLEAN : Continue(k, a)
  \/ \E k \in {2, 3} : RecoverySettles(k)

SpecMulti == InitMulti /\ [][NextMulti]_vars

\* the caller changes the array, once, after pipeline(fns) has returned
Push(t) ==
  /\ fns = built
  /\ t \in (IF Len(fns) = 0 THEN SourceStages ELSE TransformStages)
  /\ fns' = Append(fns, t)
  /\ UNCHANGED <<built, invocation, stages, run, alg, vfns, vcall, pfns, prun>>

Pop ==
  /\ fns = built
  /\ Len(fns) > 0
  /\ fns' = SubSeq(fns, 1, Len(fns) - 1)
  /\ UNCHANGED <<built, invocation, stages, run, alg, vfns, vcall, pfns, prun>>

SetElement(i, t) ==
  /\ fns = built
  /\ i \in DOMAIN fns
  /\ t \in (IF i = 1 THEN SourceStages ELSE TransformStages)
  /\ fns' = [fns EXCEPT ![i] = t]
  /\ UNCHANGED <<built, invocation, stages, run, alg, vfns, vcall, pfns, prun>>

\* one invocation, the caller changing the array before or during it
NextMutable ==
  \/ \E r \in Recoveries, a \in BOOLEAN : Invoke(1, r, a)
  \/ StageSettles(1)
  \/ \E a \in BOOLEAN : Continue(1, a)
  \/ RecoverySettles(1)
  \/ \E t \in SourceStages \cup TransformStages : Push(t)
  \/ Pop
  \/ \E i \in 1..MaxMultiStages, t \in SourceStages \cup TransformStages :
       SetElement(i, t)

SpecMutable == InitMulti /\ [][NextMutable]_vars

\* one run of a pipeAsyncResult pipeline
NoInvocation ==
  fns = <<>> /\ built = <<>> /\ invocation = [k \in Invocations |-> Idle]

InitAR ==
  /\ NoInvocation
  /\ stages \in ARStageLists
  /\ run = ARIdle
  /\ NoAlgebraCall
  /\ NoVariadic
  /\ NoPipeAsync

NextAR ==
  \/ \E r \in ARRecoveries, a \in BOOLEAN : Run(r, a)
  \/ RunStageSettles
  \/ \E a \in BOOLEAN : RunContinue(a)

SpecAR == InitAR /\ [][NextAR]_vars

\* a program that builds Results with the constructors of the pipeAsyncResult
\* algebra and checks them, and then runs a pipeAsyncResult pipeline once
NextVariant ==
  \/ \E v \in Values : run.pc = "idle" /\ CallArSuccess(v)
  \/ \E v \in Values, errors \in ErrorLists : run.pc = "idle" /\ CallArFailure(v, errors)
  \/ run.pc = "idle" /\ CallArChecks
  \/ \E r \in ARRecoveries, a \in BOOLEAN : Run(r, a)
  \/ RunStageSettles
  \/ \E a \in BOOLEAN : RunContinue(a)

SpecVariant == InitAR /\ [][NextVariant]_vars

\* one invocation of a variadic pipeline
InitVariadic ==
  /\ NoInvocation
  /\ NoRun
  /\ NoAlgebraCall
  /\ vfns \in UNION {ListsOfLen(n) : n \in 0..MaxStages}
  /\ vcall = VIdle
  /\ NoPipeAsync

NextVariadic ==
  \/ \E A \in SUBSET (1..Len(vfns)), h \in Recoveries, ha \in BOOLEAN : VInvoke(A, h, ha)
  \/ VStageSettles
  \/ VContinue
  \/ VHandlerSettles

SpecVariadic == InitVariadic /\ [][NextVariadic]_vars

\* one run of a pipeAsync pipeline
InitPipeAsync ==
  /\ NoInvocation
  /\ NoRun
  /\ NoAlgebraCall
  /\ NoVariadic
  /\ pfns \in PLists
  /\ prun = PIdle

NextPipeAsync ==
  \/ \E a \in BOOLEAN : PRun(a)
  \/ PSettles
  \/ \E a \in BOOLEAN : PContinue(a)

SpecPipeAsync == InitPipeAsync /\ [][NextPipeAsync]_vars

\* a program that invokes a pipeline() pipeline once, or runs a
\* pipeAsyncResult pipeline once next to an empty pipeline() pipeline
InitEither == Init \/ InitAR

NextEither == Next \/ NextAR

SpecEither == InitEither /\ [][NextEither]_vars

\* calls of success(), failure() and isFailure()
InitAlgebra ==
  NoInvocation /\ NoRun /\ NoAlgebraCall /\ NoVariadic /\ NoPipeAsync

NextAlgebra ==
  \/ \E v \in Values : CallSuccess(v)
  \/ \E v \in Values, e \in Tags : CallFailure(v, e)
  \/ CallIsFailure

SpecAlgebra == InitAlgebra /\ [][NextAlgebra]_vars

(***************************************************************************)
(* Reading an invocation's history.                                        *)
(***************************************************************************)
IsSuccessVariant(r) == "isSuccess" \in DOMAIN r /\ r.isSuccess = TRUE
IsFailureVariant(r) == "isSuccess" \in DOMAIN r /\ r.isSuccess = FALSE

\* event e: a stage returned (or resolved to) a Failure
StageFailed(e) ==
  e.ev = "settle" /\ e.out.kind = "return" /\ IsFailureVariant(e.out.res)

\* event e: a stage returned (or resolved to) a Success
StageSucceeded(e) ==
  e.ev = "settle" /\ e.out.kind = "return" /\ IsSuccessVariant(e.out.res)

\* event e: a stage raised (or its promise was rejected)
StageRaised(e) == e.ev = "settle" /\ e.out.kind = "throw"

\* event e: the recovery function returned (or resolved to) a Success
RecoveredSuccess(e) ==
  e.ev = "rsettle" /\ e.out.kind = "return" /\ IsSuccessVariant(e.out.res)

\* event e: the recovery function returned (or resolved to) a Failure
RecoveredFailure(e) ==
  e.ev = "rsettle" /\ e.out.kind = "return" /\ IsFailureVariant(e.out.res)

\* the stages invoked so far, in order
StagesCalled(log) ==
  LET calls == SelectSeq(log, LAMBDA e : e.ev = "call")
  IN [i \in 1..Len(calls) |-> calls[i].stage]

\* how often the recovery function was invoked
RecoveryCalls(log) == Len(SelectSeq(log, LAMBDA e : e.ev = "rcall"))

\* the input stage i was given
InputOf(log, i) ==
  LET calls == SelectSeq(log, LAMBDA e : e.ev = "call" /\ e.stage = i)
  IN calls[1].arg

\* every stage of the list returns Success whatever its input
AllStagesSucceed ==
  \A i \in 1..Len(fns) : fns[i] \in {"source1", "addOne", "double"}

(***************************************************************************)
(* C1  Fail-fast: once a stage has returned a Failure, no stage after it   *)
(* is ever invoked, and without a recovery function the invocation's       *)
(* result is exactly that Failure.                                         *)
(***************************************************************************)
C1_FailFast ==
  LET s == invocation[1]
  IN \A p \in DOMAIN s.log :
       StageFailed(s.log[p]) =>
         /\ \A q \in DOMAIN s.log :
              s.log[q].ev = "call" => q < p /\ s.log[q].stage <= s.log[p].stage
         /\ (s.pc = "done" /\ s.recovery = "none")
              => s.settlement = Fulfilled(s.log[p].out.res)

\* stage 2 of 3 failed, no recovery: the result is its Failure, stage 3 never ran
C1_Witness ==
  LET s == invocation[1]
  IN /\ s.pc = "done" /\ s.recovery = "none" /\ Len(fns) = 3
     /\ \E p \in DOMAIN s.log : StageFailed(s.log[p]) /\ s.log[p].stage = 2
     /\ s.settlement = Fulfilled(failure(Num(101), "E2"))
     /\ StagesCalled(s.log) = <<1, 2>>

C3_RecoveryContinues ==
  LET s == invocation[1]
  IN s.pc = "done" =>
       /\ \A q \in DOMAIN s.log, p \in DOMAIN s.log :
            (/\ RecoveredSuccess(s.log[q])
             /\ StageFailed(s.log[p])
             /\ s.log[p].stage < Len(fns))
              => \E c \in DOMAIN s.log :
                   /\ s.log[c].ev = "call"
                   /\ s.log[c].stage = s.log[p].stage + 1
                   /\ s.log[c].arg = s.log[q].out.res.value
       /\ (fns = <<"source1", "fail100", "double">> /\ s.recovery = "recover999")
            => s.settlement = Fulfilled(success(Num(1998)))

(***************************************************************************)
(* C4  Recovery failure passthrough: when recovery returns Failure(z, E2)  *)
(* the invocation's result is exactly Failure(z, E2); recovery is invoked  *)
(* at most once per invocation.                                            *)
(***************************************************************************)
C4_RecoveryFailurePassthrough ==
  LET s == invocation[1]
  IN /\ RecoveryCalls(s.log) <= 1
     /\ \A q \in DOMAIN s.log :
          RecoveredFailure(s.log[q]) =>
            /\ s.pc = "done"
            /\ s.settlement = Fulfilled(s.log[q].out.res)

\* the source failed with E7 and recovery returned Failure(false, "Recovered")
C4_Witness ==
  LET s == invocation[1]
  IN /\ s.pc = "done" /\ s.recovery = "recovered"
     /\ \E p \in DOMAIN s.log : StageFailed(s.log[p]) /\ s.log[p].out.res.error = "E7"
     /\ RecoveryCalls(s.log) = 1
     /\ s.settlement = Fulfilled(failure(False, "Recovered"))

(***************************************************************************)
(* C5  (as the spec and the README state it) A stage that raises is turned *)
(* into Failure(input, SYSTEM_ERROR): no later stage runs, the Failure is  *)
(* passed to recovery when one is supplied and is the result otherwise.    *)
(***************************************************************************)
C5_RaiseBecomesSystemError ==
  LET s == invocation[1]
  IN \A p \in DOMAIN s.log :
       StageRaised(s.log[p]) =>
         LET systemError == failure(InputOf(s.log, s.log[p].stage), "SYSTEM_ERROR")
         IN /\ \A c \in DOMAIN s.log :
                 s.log[c].ev = "call" => s.log[c].stage <= s.log[p].stage
            /\ s.pc = "done" =>
                 IF s.recovery = "none"
                   THEN s.settlement = Fulfilled(systemError)
                   ELSE \E c \in DOMAIN s.log :
                          s.log[c].ev = "rcall" /\ s.log[c].arg = systemError

(***************************************************************************)
(* C6  (as the spec states it) Every invocation ends by delivering a       *)
(* Result to the caller: the promise is never rejected.                    *)
(***************************************************************************)
C6_AlwaysDeliversResult ==
  LET s == invocation[1]
  IN s.pc = "done" =>
       /\ s.settlement.state = "fulfilled"
       /\ IsSuccessVariant(s.settlement.res) \/ IsFailureVariant(s.settlement.res)

(***************************************************************************)
(* C7  Value threading: stage i >= 2 is given exactly the value of the     *)
(* Success stage i-1 returned; when every stage returns Success all n      *)
(* stages run, for any n (also beyond 10), and the result is the last      *)
(* stage's Success; [success(1), n + 1, n * 2] yields Success(4).          *)
(***************************************************************************)
C7_ValueThreading ==
  LET s == invocation[1]
  IN /\ \A c \in DOMAIN s.log :
          (s.log[c].ev = "call" /\ s.log[c].stage >= 2) =>
            \E p \in 1..(c - 1) :
              /\ StageSucceeded(s.log[p])
              /\ s.log[p].stage = s.log[c].stage - 1
              /\ s.log[p].out.res.value = s.log[c].arg
     /\ (s.pc = "done" /\ AllStagesSucceed /\ Len(fns) >= 1) =>
          /\ StagesCalled(s.log) = [i \in 1..Len(fns) |-> i]
          /\ \E p \in DOMAIN s.log :
               /\ StageSucceeded(s.log[p])
               /\ s.log[p].stage = Len(fns)
               /\ s.settlement = Fulfilled(s.log[p].out.res)
     /\ (s.pc = "done" /\ fns = <<"source1">>)
          => s.settlement = Fulfilled(success(Num(1)))
     /\ (s.pc = "done" /\ fns = <<"source1", "addOne", "double">>)
          => s.settlement = Fulfilled(success(Num(4)))

\* a chain of more than 10 succeeding stages ran to its end
C7_Witness ==
  LET s == invocation[1]
  IN /\ s.pc = "done" /\ Len(fns) > 10 /\ AllStagesSucceed
     /\ Len(StagesCalled(s.log)) = Len(fns)
     /\ s.settlement.state = "fulfilled"
     /\ IsSuccessVariant(s.settlement.res)

(***************************************************************************)
(* C8  Empty pipeline: with any recovery function or none, invoking        *)
(* pipeline([]) yields Success(null); no stage executes and recovery is    *)
(* never invoked.                                                          *)
(***************************************************************************)
C8_EmptyPipeline ==
  LET s == invocation[1]
  IN (Len(fns) = 0 /\ s.pc # "idle") =>
       /\ s.pc = "done"
       /\ s.settlement = Fulfilled(success(Null))
       /\ s.log = <<>>

\* the empty pipeline was invoked with a recovery function
C8_Witness ==
  LET s == invocation[1]
  IN /\ Len(fns) = 0 /\ s.pc = "done" /\ s.recovery = "recover999"
     /\ s.settlement = Fulfilled(success(Null))

\* the stage and recovery invocations of a history, with their arguments
Invocations_Of(log) ==
  LET calls == SelectSeq(log, LAMBDA e : e.ev \in {"call", "rcall"})
  IN [i \in 1..Len(calls) |->
        [ev |-> calls[i].ev, stage |-> calls[i].stage, arg |-> calls[i].arg]]

\* calls whose Result is not yet available
InProgress(log) ==
  {c \in DOMAIN log :
     \/ /\ log[c].ev = "call"
        /\ ~\E q \in DOMAIN log :
              q > c /\ log[q].ev = "settle" /\ log[q].stage = log[c].stage
     \/ /\ log[c].ev = "rcall"
        /\ ~\E q \in DOMAIN log : q > c /\ log[q].ev = "rsettle"}

(***************************************************************************)
(* C9  Async/sync uniformity: replacing any subset of the stages (and the  *)
(* recovery function) by asynchronous ones with the same logic leaves the  *)
(* invocation's final outcome and its sequence of stage and recovery       *)
(* invocations unchanged.                                                  *)
(***************************************************************************)
C9_AsyncSyncUniform ==
  (invocation[1].pc = "done" /\ invocation[2].pc = "done") =>
    /\ invocation[2].settlement = invocation[1].settlement
    /\ Invocations_Of(invocation[2].log) = Invocations_Of(invocation[1].log)

\* a pipeline mixing a synchronous and an asynchronous stage ran to Success
C9_Witness ==
  LET l == invocation[2].log
  IN /\ invocation[1].pc = "done" /\ invocation[2].pc = "done"
     /\ Len(fns) = 3
     /\ \E c \in DOMAIN l : l[c].ev = "call" /\ l[c].async
     /\ \E c \in DOMAIN l : l[c].ev = "call" /\ ~l[c].async
     /\ \A c \in DOMAIN invocation[1].log : ~invocation[1].log[c].async
     /\ invocation[2].settlement.state = "fulfilled"
     /\ IsSuccessVariant(invocation[2].settlement.res)

(***************************************************************************)
(* C10  Ordering within one invocation: stage i+1 is started only after    *)
(* stage i's Result is resolved, recovery only after the failing stage's   *)
(* Result is resolved, and never are two stages, or a stage and the        *)
(* recovery function, in progress at once.                                 *)
(***************************************************************************)
C10_Ordering ==
  LET l == invocation[1].log
  IN /\ \A c \in DOMAIN l :
          (l[c].ev = "call" /\ l[c].stage >= 2) =>
            \E p \in 1..(c - 1) : l[p].ev = "settle" /\ l[p].stage = l[c].stage - 1
     /\ \A c \in DOMAIN l :
          l[c].ev = "rcall" =>
            \E p \in 1..(c - 1) :
              /\ l[p].ev = "settle" /\ l[p].stage = invocation[1].idx
              /\ l[p].out = Return(l[c].arg)
     /\ Cardinality(InProgress(l)) <= 1

\* two asynchronous stages and an asynchronous recovery function ran in turn
C10_Witness ==
  LET l == invocation[1].log
  IN /\ invocation[1].pc = "done"
     /\ \E c \in DOMAIN l : l[c].ev = "call" /\ l[c].stage = 1 /\ l[c].async
     /\ \E c \in DOMAIN l : l[c].ev = "call" /\ l[c].stage = 2 /\ l[c].async
     /\ \E c \in DOMAIN l : l[c].ev = "rcall" /\ l[c].async
     /\ InProgress(l) = {}

(***************************************************************************)
(* C11  Invocations of one pipeline are independent: an invocation run     *)
(* after another one, or interleaved with another one at its awaits, ends  *)
(* with the same outcome, after the same stage and recovery invocations,   *)
(* as the invocation run alone.                                            *)
(***************************************************************************)
C11_InvocationsIndependent ==
  \A k \in {2, 3} :
    (invocation[1].pc = "done" /\ invocation[k].pc = "done") =>
      /\ invocation[k].settlement = invocation[1].settlement
      /\ Invocations_Of(invocation[k].log) = Invocations_Of(invocation[1].log)
      /\ invocation[k].result = invocation[1].result

\* invocation 3 ran both stages to Success while invocation 2 was still
\* awaiting its first stage
C11_Witness ==
  /\ Len(fns) = 2
  /\ invocation[2].pc = "awaitStage" /\ invocation[2].idx = 1
  /\ invocation[3].pc = "done"
  /\ StagesCalled(invocation[3].log) = <<1, 2>>
  /\ IsSuccessVariant(invocation[3].settlement.res)
  /\ invocation[3].settlement = invocation[1].settlement

(***************************************************************************)
(* C12  (as the spec states it) The stage sequence is fixed at             *)
(* construction: whatever the caller does to the array afterwards, an      *)
(* invocation executes the stages the array held when pipeline(fns)        *)
(* returned, and is treated as the empty pipeline exactly if the array was *)
(* empty then.                                                             *)
(***************************************************************************)
C12_StagesFixedAtConstruction ==
  LET s == invocation[1]
  IN /\ \A c \in DOMAIN s.log :
          s.log[c].ev = "call" =>
            /\ s.log[c].stage \in DOMAIN built
            /\ s.log[c].fn = built[s.log[c].stage]
     /\ (s.pc = "done" /\ Len(built) = 0) =>
          s.log = <<>> /\ s.settlement = Fulfilled(success(Null))
     /\ (s.pc = "done" /\ Len(built) > 0) => s.log # <<>>
     /\ (/\ s.pc = "done"
         /\ s.settlement.state = "fulfilled"
         /\ IsSuccessVariant(s.settlement.res)
         /\ Len(built) > 0)
          => StagesCalled(s.log) = [i \in 1..Len(built) |-> i]

(***************************************************************************)
(* C13  The Failure handed to the recovery function, and the Failure       *)
(* returned when there is no recovery function, is the failing stage's own *)
(* Result unchanged: the value the stage reported and the stage's tag, not *)
(* the input the stage was given (given 1, failure(1 + 100, "E2") yields   *)
(* value 101, error "E2").                                                 *)
(***************************************************************************)
C13_StageFailureUnchanged ==
  LET s == invocation[1]
  IN \A p \in DOMAIN s.log :
       StageFailed(s.log[p]) =>
         /\ \A c \in DOMAIN s.log :
              s.log[c].ev = "rcall" => s.log[c].arg = s.log[p].out.res
         /\ s.pc = "done" =>
              IF s.recovery = "none"
                THEN s.settlement = Fulfilled(s.log[p].out.res)
                ELSE RecoveryCalls(s.log) = 1
         /\ (fns[s.log[p].stage] = "fail100" /\ InputOf(s.log, s.log[p].stage) = Num(1))
              => s.log[p].out.res = failure(Num(101), "E2")

\* a stage given 1 failed with (101, "E2") and exactly that reached recovery
C13_Witness ==
  LET s == invocation[1]
  IN /\ s.pc = "done" /\ s.recovery = "passthrough"
     /\ \E c \in DOMAIN s.log :
          s.log[c].ev = "call" /\ s.log[c].stage = 2 /\ s.log[c].arg = Num(1)
     /\ \E c \in DOMAIN s.log :
          s.log[c].ev = "rcall" /\ s.log[c].arg = failure(Num(101), "E2")
     /\ s.settlement = Fulfilled(failure(Num(101), "E2"))

(***************************************************************************)
(* History of a run of pipeAsyncResult().                                  *)
(***************************************************************************)
\* event e: a stage returned (or resolved to) a Failure {value, errors}
RunStageFailed(e) ==
  e.ev = "settle" /\ e.out.kind = "return" /\ "errors" \in DOMAIN e.out.res

\* event e: a stage returned (or resolved to) a Success {value}
RunStageSucceeded(e) ==
  e.ev = "settle" /\ e.out.kind = "return" /\ ~("errors" \in DOMAIN e.out.res)

\* the message a thrown value stands for
MessageOf(thrown) ==
  CASE thrown.t = "Error" -> thrown.message
    [] thrown.t = "string" -> thrown.message
    [] thrown = ThrownNumber(42) -> "42"

\* the run ended by handing error to recovery once, or by returning it
EndsWith(error) ==
  /\ \A c \in DOMAIN run.log : run.log[c].ev = "rcall" => run.log[c].arg = error
  /\ run.pc = "done" =>
       IF run.recoveryFunc = "none"
         THEN run.settlement = Fulfilled(error)
         ELSE RecoveryCalls(run.log) = 1

(***************************************************************************)
(* C14  pipeAsyncResult().run(): a Failure returned by a stage other than  *)
(* the first reaches recovery (or the caller, without recovery) with the   *)
(* stage's errors and, as value, the input the stage was given, which is   *)
(* the value of the last successful stage; a Failure returned by the first *)
(* stage is passed on as it is.                                            *)
(***************************************************************************)
C14_FailureCarriesInput ==
  \A p \in DOMAIN run.log :
    LET e == run.log[p]
    IN RunStageFailed(e) =>
         IF e.stage = 1
           THEN EndsWith(e.out.res)
           ELSE /\ \E q \in 1..(p - 1) :
                     /\ RunStageSucceeded(run.log[q])
                     /\ run.log[q].stage = e.stage - 1
                     /\ run.log[q].out.res.value = InputOf(run.log, e.stage)
                /\ EndsWith([value |-> InputOf(run.log, e.stage),
                             errors |-> e.out.res.errors])

\* the second stage, given 1, returned a Failure with value 0; the run
\* returned that Failure with value 1
C14_Witness ==
  /\ run.pc = "done" /\ run.recoveryFunc = "none"
  /\ Len(stages) >= 2 /\ stages[2] = "failZero"
  /\ \E p \in DOMAIN run.log :
       /\ RunStageFailed(run.log[p]) /\ run.log[p].stage = 2
       /\ run.log[p].out.res.value = Num(0)
  /\ run.settlement = Fulfilled([value |-> Num(1),
                                 errors |-> <<"mid error", "second error">>])

(***************************************************************************)
(* C15  pipeAsyncResult().run(): a stage that raises, at once or from the  *)
(* promise it returned, becomes a Failure whose errors hold exactly one    *)
(* entry, the Error's message or the string form of the thrown value, and  *)
(* whose value is the stage's input (null for the first stage); no later   *)
(* stage is invoked; the Failure goes to recovery when there is one and is *)
(* returned otherwise.                                                     *)
(***************************************************************************)
C15_RaiseBecomesFailure ==
  \A p \in DOMAIN run.log :
    LET e == run.log[p]
    IN StageRaised(e) =>
         /\ \A c \in DOMAIN run.log : c > p => run.log[c].ev # "call"
         /\ EndsWith([value |-> IF e.stage = 1 THEN Null
                                ELSE InputOf(run.log, e.stage),
                      errors |-> <<MessageOf(e.out.err)>>])

\* the second stage's promise was rejected with a string; recovery received
\* the Failure made of it
C15_Witness ==
  /\ run.pc = "done" /\ run.recoveryFunc = "recoverFail"
  /\ \E c, p \in DOMAIN run.log :
       /\ c < p
       /\ run.log[c].ev = "call" /\ run.log[c].stage = 2 /\ run.log[c].async
       /\ StageRaised(run.log[p]) /\ run.log[p].stage = 2
       /\ run.log[p].out.err = ThrownString("ERROR 1")
  /\ \E c \in DOMAIN run.log :
       /\ run.log[c].ev = "rcall"
       /\ run.log[c].arg = [value |-> Num(1), errors |-> <<"ERROR 1">>]
  /\ run.settlement = Fulfilled([value |-> Num(1), errors |-> <<"recovery failed">>])

(***************************************************************************)
(* C16  pipeline() and pipeAsyncResult().run(): the recovery function is   *)
(* invoked only if some stage failed; when every stage returns Success a   *)
(* supplied recovery function is never invoked and the result is the last  *)
(* stage's Success.                                                        *)
(***************************************************************************)
C16_RecoveryOnlyAfterFailure ==
  LET s == invocation[1]
  IN /\ \A c \in DOMAIN s.log :
          s.log[c].ev = "rcall" => \E p \in 1..(c - 1) : StageFailed(s.log[p])
     /\ (/\ s.pc = "done"
         /\ Len(fns) > 0
         /\ \A i \in 1..Len(fns) :
              \E p \in DOMAIN s.log : StageSucceeded(s.log[p]) /\ s.log[p].stage = i)
          => /\ RecoveryCalls(s.log) = 0
             /\ \E p \in DOMAIN s.log :
                  /\ StageSucceeded(s.log[p]) /\ s.log[p].stage = Len(fns)
                  /\ s.settlement = Fulfilled(s.log[p].out.res)
     /\ \A c \in DOMAIN run.log :
          run.log[c].ev = "rcall" =>
            \E p \in 1..(c - 1) : RunStageFailed(run.log[p]) \/ StageRaised(run.log[p])
     /\ (/\ run.pc = "done"
         /\ \A i \in 1..Len(stages) :
              \E p \in DOMAIN run.log :
                RunStageSucceeded(run.log[p]) /\ run.log[p].stage = i)
          => /\ RecoveryCalls(run.log) = 0
             /\ \E p \in DOMAIN run.log :
                  /\ RunStageSucceeded(run.log[p]) /\ run.log[p].stage = Len(stages)
                  /\ run.settlement = Fulfilled(run.log[p].out.res)

\* a pipeline() pipeline of three stages that all succeed was invoked with a
\* recovery function and completed with the last stage's Success
C16_Witness ==
  LET s == invocation[1]
  IN /\ s.pc = "done" /\ s.recovery = "recover999"
     /\ fns = <<"source1", "addOne", "double">>
     /\ RecoveryCalls(s.log) = 0
     /\ s.settlement = Fulfilled(success(Num(4)))

(***************************************************************************)
(* C17  Result algebra of the pipeline() variant: success(v) is a Success  *)
(* carrying exactly v and no error, failure(v, e) is a Failure carrying    *)
(* exactly v and e, isFailure is false of the former and true of the       *)
(* latter, and neither constructor fails.                                  *)
(***************************************************************************)
C17_ResultAlgebra ==
  /\ alg.op = "success" =>
       /\ DOMAIN alg.result = {"isSuccess", "value"}
       /\ alg.result.isSuccess = TRUE
       /\ alg.result.value = alg.value
       /\ alg.asked => alg.isFailure = FALSE
  /\ alg.op = "failure" =>
       /\ DOMAIN alg.result = {"isSuccess", "value", "error"}
       /\ alg.result.isSuccess = FALSE
       /\ alg.result.value = alg.value
       /\ alg.result.error = alg.error
       /\ alg.asked => alg.isFailure = TRUE
  /\ alg.op # "none" => alg.result # NoResult

\* isFailure was asked of failure(null, "E2")
C17_Witness ==
  /\ alg.op = "failure" /\ alg.value = Null /\ alg.error = "E2"
  /\ alg.asked /\ alg.isFailure

(***************************************************************************)
(* C18  pipeAsyncResult().run(): only the first fault is observed, be it a *)
(* returned Failure or a raised exception: after a stage failed no later   *)
(* stage is invoked (a stage that would raise is not reached after an      *)
(* earlier Failure) and the result carries the earlier stage's errors.     *)
(***************************************************************************)
C18_FirstFaultOnly ==
  \A p \in DOMAIN run.log :
    LET e == run.log[p]
    IN (RunStageFailed(e) \/ StageRaised(e)) =>
         /\ \A c \in DOMAIN run.log : c > p => run.log[c].ev \notin {"call", "settle"}
         /\ \A c \in DOMAIN run.log :
              run.log[c].ev = "rcall" =>
                IF RunStageFailed(e)
                  THEN run.log[c].arg.errors = e.out.res.errors
                  ELSE Len(run.log[c].arg.errors) = 1
         /\ (run.pc = "done" /\ run.recoveryFunc = "none") =>
              /\ run.settlement.state = "fulfilled"
              /\ IF RunStageFailed(e)
                   THEN run.settlement.res.errors = e.out.res.errors
                   ELSE Len(run.settlement.res.errors) = 1

\* the second stage returned a Failure, the third would have raised: it was
\* not invoked and the result carries the second stage's errors
C18_Witness ==
  /\ run.pc = "done" /\ run.recoveryFunc = "none"
  /\ Len(stages) = 3 /\ stages[2] = "failZero" /\ stages[3] = "throwError"
  /\ StagesCalled(run.log) = <<1, 2>>
  /\ run.settlement.res.errors = <<"mid error", "second error">>

(***************************************************************************)
(* C19  pipeline() with an asynchronous recovery function: the invocation  *)
(* completes only after the promise recovery returned has settled, and its *)
(* result is the Result that promise resolved to, Success or Failure,      *)
(* unchanged.                                                              *)
(***************************************************************************)
C19_AsyncRecoveryAdopted ==
  LET s == invocation[1]
  IN \A c \in DOMAIN s.log :
       (s.log[c].ev = "rcall" /\ s.log[c].async) =>
         IF \E d \in DOMAIN s.log : d > c /\ s.log[d].ev = "rsettle"
           THEN /\ c + 1 = Len(s.log)
                /\ s.pc = "done"
                /\ s.log[c + 1].out = ApplyRecovery(s.recovery, s.log[c].arg)
                /\ s.log[c + 1].out.kind = "return" =>
                     s.settlement = Fulfilled(s.log[c + 1].out.res)
           ELSE s.pc = "awaitRecovery" /\ s.settlement = Pending

\* an asynchronous recovery function resolved to the Failure it was given and
\* the invocation completed with it
C19_Witness ==
  LET s == invocation[1]
  IN /\ s.pc = "done" /\ s.recovery = "passthrough"
     /\ \E c \in DOMAIN s.log : s.log[c].ev = "rcall" /\ s.log[c].async
     /\ s.settlement = Fulfilled(failure(Num(101), "E2"))

(***************************************************************************)
(* C20  pipeline(): the stages invoked in an invocation form a prefix of   *)
(* the stage list in list order, each invoked exactly once; stage i is     *)
(* invoked only after every stage before it was invoked once and returned  *)
(* Success; no stage is invoked twice or skipped.                          *)
(***************************************************************************)
C20_PrefixInOrder ==
  LET s == invocation[1]
      called == StagesCalled(s.log)
  IN /\ Len(called) <= Len(fns)
     /\ called = [i \in 1..Len(called) |-> i]
     /\ \A c \in DOMAIN s.log :
          s.log[c].ev = "call" =>
            \A j \in 1..(s.log[c].stage - 1) :
              \E p \in 1..(c - 1) : StageSucceeded(s.log[p]) /\ s.log[p].stage = j

\* of three stages the first two were invoked, in order, and the second
\* one failed
C20_Witness ==
  LET s == invocation[1]
  IN /\ s.pc = "done" /\ Len(fns) = 3
     /\ StagesCalled(s.log) = <<1, 2>>
     /\ \E p \in DOMAIN s.log : StageFailed(s.log[p]) /\ s.log[p].stage = 2

(***************************************************************************)
(* C21  Termination of pipeline(): when every stage and the recovery       *)
(* function eventually return, an invocation of a pipeline of n stages     *)
(* eventually completes with a result, after at most n stage invocations   *)
(* and at most one recovery invocation.                                    *)
(***************************************************************************)
C21_Termination ==
  LET s == invocation[1]
  IN /\ []( /\ Len(StagesCalled(s.log)) <= Len(fns)
            /\ RecoveryCalls(s.log) <= 1
            /\ (/\ s.pc = "done"
                /\ \A p \in DOMAIN s.log : s.log[p].out.kind = "throw" =>
                     s.log[p].ev \in {"call", "rcall"})
                 => s.settlement.state = "fulfilled" )
     /\ (s.pc # "idle") ~> (s.pc = "done")

\* an invocation of three stages completed with a result after three stage
\* invocations and one recovery invocation
C21_Witness ==
  LET s == invocation[1]
  IN /\ s.pc = "done" /\ s.settlement.state = "fulfilled"
     /\ Len(fns) = 3 /\ Len(StagesCalled(s.log)) = 3
     /\ RecoveryCalls(s.log) = 1

(***************************************************************************)
(* C22  Exactly one variant: of every Result built by success() or         *)
(* failure() of the pipeAsyncResult algebra, failure with an empty errors  *)
(* list included, exactly one of isSuccess and isFailure is true; the same *)
(* holds of every Result run() returns when stages and recovery return     *)
(* Results built by these constructors.                                    *)
(***************************************************************************)
C22_ExactlyOneVariant ==
  /\ (alg.op \in {"arSuccess", "arFailure"} /\ alg.asked) =>
       /\ alg.isSuccess # alg.isFailure
       /\ alg.isSuccess = (alg.op = "arSuccess")
  /\ (run.pc = "done" /\ run.settlement.state = "fulfilled") =>
       arIsSuccess(run.settlement.res) # arIsFailure(run.settlement.res)

\* failure(v, []) was found to be a Failure and not a Success, and a run
\* returned the Failure a stage had returned
C22_Witness ==
  /\ alg.op = "arFailure" /\ alg.errors = <<>> /\ alg.asked
  /\ alg.isFailure /\ ~alg.isSuccess
  /\ run.pc = "done" /\ run.settlement.state = "fulfilled"
  /\ "errors" \in DOMAIN run.settlement.res

(***************************************************************************)
(* History of an invocation of the variadic pipeline.                      *)
(***************************************************************************)
\* how often stage i was invoked
CallsOf(log, i) ==
  Len(SelectSeq(log, LAMBDA e : e.ev = "call" /\ e.stage = i))

\* the Result of the same pipeline with every stage synchronous
AllSyncResult ==
  SyncPath([VIdle EXCEPT !.errorHandler = vcall.errorHandler, !.mode = "sync"],
           1).settlement

(***************************************************************************)
(* C23  Variadic pipeline of src/unnamed/part_008: every stage, the source *)
(* stage included, is invoked at most once per invocation, whether the     *)
(* source stage returns a Result or a promise of one.                      *)
(***************************************************************************)
C23_EachStageAtMostOnce ==
  \A i \in 1..Len(vfns) : CallsOf(vcall.log, i) <= 1

(***************************************************************************)
(* C24  Variadic pipeline of src/unnamed/part_008: with a synchronous      *)
(* source stage, a later stage that returns a promise of Success gives the *)
(* same final Result as the same stage returning that Success at once.     *)
(***************************************************************************)
C24_MixedSameAsSync ==
  (/\ vcall.pc = "done"
   /\ Len(vfns) > 0
   /\ ~(1 \in vcall.async)
   /\ \A i \in vcall.async : vfns[i] \in {"addOne", "double"})
    => vcall.settlement = AllSyncResult

(***************************************************************************)
(* C25  Variadic pipeline of src/unnamed/part_008, asynchronous path (the  *)
(* source stage returns a promise): an exception raised by a stage becomes *)
(* a Failure with value null and the thrown object as error, the error     *)
(* handler is not invoked for it, and an exception raised by the error     *)
(* handler is converted the same way.                                      *)
(***************************************************************************)
C25_AsyncPathCatches ==
  vcall.mode = "async" =>
    \A p \in DOMAIN vcall.log :
      LET e == vcall.log[p]
      IN /\ StageRaised(e) =>
              /\ RecoveryCalls(vcall.log) = 0
              /\ \A c \in DOMAIN vcall.log : c > p => vcall.log[c].ev # "call"
              /\ vcall.pc = "done" =>
                   vcall.settlement = Fulfilled(failure(Null, e.out.err))
         /\ (e.ev = "rsettle" /\ e.out.kind = "throw") =>
              /\ vcall.pc = "done"
              /\ vcall.settlement = Fulfilled(failure(Null, e.out.err))

\* on the asynchronous path the second stage's promise was rejected; the
\* error handler that was supplied was not invoked and the invocation
\* resolved to failure(null, the thrown object)
C25_Witness ==
  /\ vcall.pc = "done" /\ vcall.mode = "async"
  /\ vcall.errorHandler = "recover999"
  /\ vcall.async = {1, 2}
  /\ \E p \in DOMAIN vcall.log :
       StageRaised(vcall.log[p]) /\ vcall.log[p].stage = 2
  /\ RecoveryCalls(vcall.log) = 0
  /\ vcall.settlement = Fulfilled(failure(Null, "boom"))

(***************************************************************************)
(* History of a run of pipeAsync().                                        *)
(***************************************************************************)
\* the functions among f1, ...fns, in order
FunctionsOf(list) == SelectSeq(list, LAMBDA f : f # "notAFunction")

\* the value of the composition of the first k functions of fs
RECURSIVE Composed(_, _)
Composed(fs, k) ==
  IF k = 1 THEN ApplyFunc(fs[1], NoArgument).res
  ELSE ApplyFunc(fs[k], Composed(fs, k - 1)).res

\* the call events of a log
CallsIn(log) == SelectSeq(log, LAMBDA e : e.ev = "call")

(***************************************************************************)
(* C26  pipeAsync(f1, ...fns).run() resolves to the composition of the     *)
(* functions in order: f1 is called with no argument, each later function  *)
(* with the resolved output of the previous one (a pending output is       *)
(* awaited first), and the resolved output of the last function is the     *)
(* result.                                                                 *)
(***************************************************************************)
C26_Composition ==
  LET fs == FunctionsOf(pfns)
      calls == CallsIn(prun.log)
  IN /\ Len(calls) <= Len(fs)
     /\ \A k \in 1..Len(calls) :
          /\ calls[k].fn = fs[k]
          /\ calls[k].arg = IF k = 1 THEN NoArgument ELSE Composed(fs, k - 1)
     /\ \A c \in DOMAIN prun.log :
          (prun.log[c].ev = "call" /\ c > 1) =>
            /\ prun.log[c - 1].ev = "settle"
            /\ prun.log[c - 1].out = Return(prun.log[c].arg)
     /\ (prun.pc = "done" /\ prun.settlement.state = "fulfilled") =>
          /\ Len(calls) = Len(fs)
          /\ prun.settlement.res = Composed(fs, Len(fs))

\* f1() -> 1, f2(1) -> "value 1" from a promise, f3("value 1") -> 7
C26_Witness ==
  /\ pfns = <<"one", "valueOf", "length">>
  /\ prun.pc = "done"
  /\ \E c \in DOMAIN prun.log :
       /\ prun.log[c].ev = "call" /\ prun.log[c].stage = 2 /\ prun.log[c].async
       /\ prun.log[c].arg = Num(1)
  /\ \E c \in DOMAIN prun.log :
       /\ prun.log[c].ev = "call" /\ prun.log[c].stage = 3
       /\ prun.log[c].arg = Str("value 1")
  /\ prun.settlement = Fulfilled(Num(7))

====
